---------------------------- MODULE Spec2Model ----------------------------
(***************************************************************************)
(* Model of yolov8_ros/detect_3d_node.py: the Detect3DNode lifecycle node  *)
(* and its 2D-to-3D projection functions.                                  *)
(*                                                                         *)
(* Numbers: the node computes in float64.  A value is modelled as          *)
(* <<kind, n, d>>: kind 0 is the exact rational n/d in lowest terms with   *)
(* d > 0, kind 1 is +inf, kind 2 is -inf, kind 3 is NaN.  Arithmetic       *)
(* follows IEEE-754 for the special values (inf * 0 = NaN, x / 0 = inf,    *)
(* 0 / 0 = NaN, comparisons with NaN are false); rounding and signed       *)
(* zeros are not modelled.                                                 *)
(***************************************************************************)
EXTENDS Integers, Sequences, FiniteSets, TLC

\* ------------------------------------------------------------------------
\* Bounds of the model
\* ------------------------------------------------------------------------
ImageHeight == 2
ImageWidth == 3
MaxCoord == 3
MaxSize == 4
MaxDetections == 2
MaxKeypoints == 2
MaxActivations == 2

\* ------------------------------------------------------------------------
\* float64 arithmetic
\* ------------------------------------------------------------------------
Abs(n) == IF n < 0 THEN -n ELSE n

RECURSIVE GCD(_, _)
GCD(a, b) == IF b = 0 THEN a ELSE GCD(b, a % b)

Fin(n, d) ==
    LET s == IF d < 0 THEN -1 ELSE 1
        g == GCD(Abs(n), Abs(d))
    IN  <<0, (s * n) \div g, (s * d) \div g>>

Num(n) == <<0, n, 1>>
PInf == <<1, 0, 1>>
NInf == <<2, 0, 1>>
NaN == <<3, 0, 1>>

IsNaN(a) == a[1] = 3
IsInf(a) == a[1] \in {1, 2}
IsFinite(a) == a[1] = 0

\* sign of a non-NaN value: -1, 0 or 1
Sgn(a) ==
    IF a[1] = 1 THEN 1
    ELSE IF a[1] = 2 THEN -1
    ELSE IF a[2] > 0 THEN 1 ELSE IF a[2] < 0 THEN -1 ELSE 0

Signed(s) == IF s < 0 THEN NInf ELSE PInf

FNeg(a) ==
    IF IsNaN(a) THEN NaN
    ELSE IF a[1] = 1 THEN NInf
    ELSE IF a[1] = 2 THEN PInf
    ELSE <<0, -a[2], a[3]>>

FAdd(a, b) ==
    IF IsNaN(a) \/ IsNaN(b) THEN NaN
    ELSE IF IsInf(a) /\ IsInf(b) THEN (IF a = b THEN a ELSE NaN)
    ELSE IF IsInf(a) THEN a
    ELSE IF IsInf(b) THEN b
    ELSE Fin(a[2] * b[3] + b[2] * a[3], a[3] * b[3])

FSub(a, b) == FAdd(a, FNeg(b))

FMul(a, b) ==
    IF IsNaN(a) \/ IsNaN(b) THEN NaN
    ELSE IF IsInf(a) \/ IsInf(b)
         THEN (IF Sgn(a) * Sgn(b) = 0 THEN NaN ELSE Signed(Sgn(a) * Sgn(b)))
    ELSE Fin(a[2] * b[2], a[3] * b[3])

FDiv(a, b) ==
    IF IsNaN(a) \/ IsNaN(b) THEN NaN
    ELSE IF IsInf(a) /\ IsInf(b) THEN NaN
    ELSE IF IsInf(a) THEN Signed(Sgn(a) * (IF Sgn(b) < 0 THEN -1 ELSE 1))
    ELSE IF IsInf(b) THEN Num(0)
    ELSE IF b[2] = 0 THEN (IF a[2] = 0 THEN NaN ELSE Signed(Sgn(a)))
    ELSE Fin(a[2] * b[3], a[3] * b[2])

FAbs(a) ==
    IF IsNaN(a) THEN NaN
    ELSE IF IsInf(a) THEN PInf
    ELSE <<0, Abs(a[2]), a[3]>>

\* a < b; false when either is NaN
FLt(a, b) ==
    /\ ~IsNaN(a)
    /\ ~IsNaN(b)
    /\ a # b
    /\ IF IsInf(a) \/ IsInf(b)
       THEN a[1] = 2 \/ b[1] = 1
       ELSE a[2] * b[3] < b[2] * a[3]

FGt(a, b) == FLt(b, a)
FLe(a, b) == ~IsNaN(a) /\ ~IsNaN(b) /\ (a = b \/ FLt(a, b))
FGe(a, b) == FLe(b, a)

\* int(x) of a finite value: truncation towards zero
Trunc(a) == IF a[2] >= 0 THEN a[2] \div a[3] ELSE -((-a[2]) \div a[3])

Max(a, b) == IF a >= b THEN a ELSE b
Min(a, b) == IF a <= b THEN a ELSE b

\* ------------------------------------------------------------------------
\* Parameters declared by on_configure (defaults)
\* ------------------------------------------------------------------------
depth_image_units_divisor == 1000
maximum_detection_threshold == Fin(3, 10)

\* ------------------------------------------------------------------------
\* Messages
\* ------------------------------------------------------------------------
\* A depth image: shape and one sample per pixel, indexed [row, column]
\* from 0.  A CameraInfo: the 3x3 matrix k row-major, height and width.
K(info, i) == info.k[i + 1]

\* KeyPoint2D() as constructed with no arguments
KeyPoint2D == [id |-> 0, score |-> Num(0), point |-> [x |-> Num(0), y |-> Num(0)]]

Vec3(x, y, z) == <<x, y, z>>
Zero3 == Vec3(Num(0), Num(0), Num(0))

\* ------------------------------------------------------------------------
\* convert_bb_to_3d
\* ------------------------------------------------------------------------
\* The rows (columns) that a[start:stop] selects on an axis of length n.
SliceRange(start, stop, n) ==
    LET lo == IF start < 0 THEN Max(start + n, 0) ELSE Min(start, n)
        hi == IF stop < 0 THEN Max(stop + n, 0) ELSE Min(stop, n)
    IN  lo .. (hi - 1)

\* raw depth units to meters
Meters(raw) == FDiv(raw, Num(depth_image_units_divisor))

\* center_x, center_y, size_x, size_y of the 2D box as integers
BoxInt(detection) ==
    [center_x |-> Trunc(detection.bbox.center.x),
     center_y |-> Trunc(detection.bbox.center.y),
     size_x |-> Trunc(detection.bbox.size.x),
     size_y |-> Trunc(detection.bbox.size.y)]

\* u_min, u_max, v_min, v_max of the crop
RoiBounds(depth_image, detection) ==
    LET b == BoxInt(detection)
    IN  [u_min |-> Max(b.center_x - (b.size_x \div 2), 0),
         u_max |-> Min(b.center_x + (b.size_x \div 2), depth_image.shape[2] - 1),
         v_min |-> Max(b.center_y - (b.size_y \div 2), 0),
         v_max |-> Min(b.center_y + (b.size_y \div 2), depth_image.shape[1] - 1)]

\* the pixels <<row, column>> of depth_image[v_min:v_max, u_min:u_max]
RoiIndices(depth_image, detection) ==
    LET r == RoiBounds(depth_image, detection)
    IN  SliceRange(r.v_min, r.v_max, depth_image.shape[1])
            \X SliceRange(r.u_min, r.u_max, depth_image.shape[2])

\* the keypoint the loop over keypoints.data leaves in the variable for id
RECURSIVE LastKeypoint(_, _)
LastKeypoint(data, id) ==
    IF data = <<>> THEN KeyPoint2D
    ELSE IF data[Len(data)].id = id THEN data[Len(data)]
    ELSE LastKeypoint(SubSeq(data, 1, Len(data) - 1), id)

Detected(data, ids) == \E i \in 1..Len(data) : data[i].id \in ids

\* a if a.score > b.score else b
BetterScore(a, b) == IF FGt(a.score, b.score) THEN a ELSE b

MidPoint(a, b) ==
    [x |-> FDiv(FAdd(a.point.x, b.point.x), Num(2)),
     y |-> FDiv(FAdd(a.point.y, b.point.y), Num(2))]

\* center_x, center_y after the keypoint override and int()
PixelAnchor(detection) ==
    LET data == detection.keypoints
        b == BoxInt(detection)
        kp5 == LastKeypoint(data, 5)
        kp6 == LastKeypoint(data, 6)
        kp11 == LastKeypoint(data, 11)
        kp12 == LastKeypoint(data, 12)
        up_detected == Detected(data, {5, 6})
        down_detected == Detected(data, {11, 12})
        up == BetterScore(kp5, kp6)
        down == BetterScore(kp11, kp12)
        c0 == [x |-> Num(b.center_x), y |-> Num(b.center_y)]
        c1 == IF up_detected /\ down_detected THEN MidPoint(up, down) ELSE c0
        c2 == IF up_detected /\ ~down_detected THEN up.point ELSE c1
        c3 == IF down_detected /\ ~up_detected THEN down.point ELSE c2
        c4 == IF up_detected /\ down_detected THEN MidPoint(up, down) ELSE c3
    IN  [x |-> Trunc(c4.x), y |-> Trunc(c4.y)]

\* variant with a seeded fault: the upper limits compared with > instead of >=
InsideLimits_inclusive(depth_image, center_x, center_y) ==
    ~(\/ center_x < 0
      \/ center_x > depth_image.shape[2]
      \/ center_y < 0
      \/ center_y > depth_image.shape[1])

\* the check of center_x and center_y against the image limits
InsideLimits(depth_image, center_x, center_y) ==
    ~(\/ center_x < 0
      \/ center_x >= depth_image.shape[2]
      \/ center_y < 0
      \/ center_y >= depth_image.shape[1])

\* depth_image[row][col]: a negative index counts from the end; an index
\* outside the array has no sample (NaN stands for the IndexError)
Sample(depth_image, row, col) ==
    LET h == depth_image.shape[1]
        w == depth_image.shape[2]
        r == IF row < 0 THEN row + h ELSE row
        c == IF col < 0 THEN col + w ELSE col
    IN  IF r \in 0..(h - 1) /\ c \in 0..(w - 1)
        THEN depth_image.data[<<r, c>>] ELSE NaN

RECURSIVE FSum(_, _)
FSum(S, f) ==
    IF S = {} THEN Num(0)
    ELSE LET x == CHOOSE y \in S : TRUE
         IN  FAdd(f[x], FSum(S \ {x}, f))

FMinOf(V) == CHOOSE x \in V : \A y \in V : FLe(x, y)
FMaxOf(V) == CHOOSE x \in V : \A y \in V : FGe(x, y)

\* variant with a seeded fault: the mean taken over every unmasked sample, zeros included
RobustMean_all(roi, valid) ==
    FDiv(FSum(valid, roi), Num(Cardinality(valid)))

\* np.mean(roi[roi > 0]) of the masked roi: the masked (NaN, inf) samples
\* do not count
RobustMean(roi, valid) ==
    LET pos == {p \in valid : FGt(roi[p], Num(0))}
    IN  FDiv(FSum(pos, roi), Num(Cardinality(pos)))

\* mask_z: the unmasked samples with abs(roi - average) <= threshold
MaskZ(roi, valid, average_z_coord) ==
    {p \in valid :
        FLe(FAbs(FSub(roi[p], average_z_coord)), maximum_detection_threshold)}

NoBox == [ok |-> FALSE, center |-> Zero3, size |-> Zero3]

BBReturn(stage, idx, anchor, reads, box) ==
    [stage |-> stage, roi |-> idx, anchor |-> anchor, reads |-> reads,
     ok |-> box.ok, center |-> box.center, size |-> box.size]

\* project from image to world space and create the 3D BB
ProjectBox(depth_info, detection, center, average_z_coord, z_min, z_max) ==
    LET px == K(depth_info, 2)
        py == K(depth_info, 5)
        fx == K(depth_info, 0)
        fy == K(depth_info, 4)
        b == BoxInt(detection)
        x == FDiv(FMul(average_z_coord, FSub(Num(center.x), px)), fx)
        y == FDiv(FMul(average_z_coord, FSub(Num(center.y), py)), fy)
        w == FMul(average_z_coord, FDiv(Num(b.size_x), fx))
        h == FMul(average_z_coord, FDiv(Num(b.size_y), fy))
    IN  [ok |-> TRUE,
         center |-> Vec3(x, y, average_z_coord),
         size |-> Vec3(w, h, FSub(z_max, z_min))]

\* The result carries, beside the box (ok, center, size), what the call
\* did: the pixels of the crop, the resolved anchor, the pixels read at
\* the anchor and the return statement taken.
convert_bb_to_3d(depth_image, depth_info, detection) ==
    LET idx == RoiIndices(depth_image, detection)
        roi == [p \in idx |-> Meters(depth_image.data[p])]
        center == PixelAnchor(detection)
        none == [x |-> 0, y |-> 0]
        bb_center_z_coord == Meters(Sample(depth_image, center.y, center.x))
        valid == {p \in idx : IsFinite(roi[p])}
        average_z_coord == RobustMean(roi, valid)
        mask_z == MaskZ(roi, valid, average_z_coord)
        roi_threshold == {roi[p] : p \in mask_z}
    IN  IF ~(\E p \in idx : roi[p] # Num(0))
        THEN BBReturn("no_roi", idx, none, {}, NoBox)
        ELSE IF ~InsideLimits(depth_image, center.x, center.y)
        THEN BBReturn("outside", idx, center, {}, NoBox)
        ELSE IF \/ IsNaN(bb_center_z_coord)
                \/ bb_center_z_coord = Num(0)
                \/ IsInf(bb_center_z_coord)
        THEN BBReturn("no_center_depth", idx, center, {<<center.y, center.x>>}, NoBox)
        ELSE IF ~(valid # {} /\ \E p \in valid : roi[p] # Num(0))
        THEN BBReturn("no_valid_depth", idx, center, {<<center.y, center.x>>}, NoBox)
        ELSE IF mask_z = {}
        THEN BBReturn("no_consensus", idx, center, {<<center.y, center.x>>}, NoBox)
        ELSE BBReturn("box", idx, center, {<<center.y, center.x>>},
                      ProjectBox(depth_info, detection, center, average_z_coord,
                                 FMinOf(roi_threshold), FMaxOf(roi_threshold)))

\* ------------------------------------------------------------------------
\* convert_keypoints_to_3d
\* ------------------------------------------------------------------------
\* a float stored in an array of dtype int16
ToInt16(a) == ((Trunc(a) + 32768) % 65536) - 32768

Clip(n, lo, hi) == IF n < lo THEN lo ELSE IF n > hi THEN hi ELSE n

\* row u and column v at which the depth of a keypoint is sampled
KeypointPixel(depth_info, kp) ==
    [u |-> Clip(ToInt16(kp.point.y), 0, depth_info.height - 1),
     v |-> Clip(ToInt16(kp.point.x), 0, depth_info.width - 1)]

\* one row of points_3d: the keypoint projected to 3D, in meters
KeypointTo3D(depth_image, depth_info, kp) ==
    LET at == KeypointPixel(depth_info, kp)
        z == Sample(depth_image, at.u, at.v)
        px == K(depth_info, 2)
        py == K(depth_info, 5)
        fx == K(depth_info, 0)
        fy == K(depth_info, 4)
        x == FDiv(FMul(z, FSub(Num(at.v), px)), fx)
        y == FDiv(FMul(z, FSub(Num(at.u), py)), fy)
    IN  Vec3(Meters(x), Meters(y), Meters(z))

\* variant with a seeded fault: only the depth tested for NaN
AnyNaN_depth_only(p) == IsNaN(p[3])

AnyNaN(p) == IsNaN(p[1]) \/ IsNaN(p[2]) \/ IsNaN(p[3])

KeyPoint3D(kp, p) == [id |-> kp.id, score |-> kp.score, point |-> p]

\* the loop that generates the message
RECURSIVE KeypointMessages(_, _, _)
KeypointMessages(depth_image, depth_info, data) ==
    IF data = <<>> THEN <<>>
    ELSE LET p == KeypointTo3D(depth_image, depth_info, Head(data))
             rest == KeypointMessages(depth_image, depth_info, Tail(data))
         IN  IF ~AnyNaN(p) THEN <<KeyPoint3D(Head(data), p)>> \o rest ELSE rest

\* With no keypoint the 2D array is one-dimensional and keypoints_2d[:, 1]
\* raises IndexError.
convert_keypoints_to_3d(depth_image, depth_info, detection) ==
    IF detection.keypoints = <<>>
    THEN [raised |-> TRUE, data |-> <<>>, frame_id |-> ""]
    ELSE [raised |-> FALSE,
          data |-> KeypointMessages(depth_image, depth_info, detection.keypoints),
          frame_id |-> ""]

\* ------------------------------------------------------------------------
\* get_transform, qv_mult, transform_3d_box, transform_3d_keypoints
\* ------------------------------------------------------------------------
target_frame == "base_link"

\* variant with a seeded fault: the failed lookup answered with the identity transform
get_transform_identity(lookup) ==
    [ok |-> TRUE,
     translation |-> Vec3(lookup.translation.x, lookup.translation.y,
                          lookup.translation.z),
     rotation |-> IF lookup.raises THEN <<Num(1), Num(0), Num(0), Num(0)>>
                  ELSE <<lookup.rotation.w, lookup.rotation.x,
                         lookup.rotation.y, lookup.rotation.z>>]

\* lookup is what tf_buffer.lookup_transform does: it raises a
\* TransformException or returns a TransformStamped
get_transform(lookup) ==
    IF lookup.raises
    THEN [ok |-> FALSE, translation |-> Zero3,
          rotation |-> <<Num(1), Num(0), Num(0), Num(0)>>]
    ELSE [ok |-> TRUE,
          translation |-> Vec3(lookup.translation.x, lookup.translation.y,
                               lookup.translation.z),
          rotation |-> <<lookup.rotation.w, lookup.rotation.x,
                         lookup.rotation.y, lookup.rotation.z>>]

Cross(a, b) ==
    Vec3(FSub(FMul(a[2], b[3]), FMul(a[3], b[2])),
         FSub(FMul(a[3], b[1]), FMul(a[1], b[3])),
         FSub(FMul(a[1], b[2]), FMul(a[2], b[1])))

VAdd(a, b) == Vec3(FAdd(a[1], b[1]), FAdd(a[2], b[2]), FAdd(a[3], b[3]))
VSub(a, b) == Vec3(FSub(a[1], b[1]), FSub(a[2], b[2]), FSub(a[3], b[3]))
VScale(k, a) == Vec3(FMul(k, a[1]), FMul(k, a[2]), FMul(k, a[3]))

\* variant with a seeded fault: the factor 2 of the rotation formula left out
qv_mult_no_double(q, v) ==
    LET qvec == Vec3(q[2], q[3], q[4])
        uv == Cross(qvec, v)
        uuv == Cross(qvec, uv)
    IN  VAdd(v, VAdd(VScale(q[1], uv), uuv))

qv_mult(q, v) ==
    LET qvec == Vec3(q[2], q[3], q[4])
        uv == Cross(qvec, v)
        uuv == Cross(qvec, uv)
    IN  VAdd(v, VScale(Num(2), VAdd(VScale(q[1], uv), uuv)))

\* variant with a seeded fault: the rotated size kept with its signs
transform_3d_box_signed(bbox, translation, rotation) ==
    [center |-> VAdd(qv_mult(rotation, bbox.center), translation),
     size |-> qv_mult(rotation, bbox.size)]

transform_3d_box(bbox, translation, rotation) ==
    LET position == VAdd(qv_mult(rotation, bbox.center), translation)
        size == qv_mult(rotation, bbox.size)
    IN  [center |-> position,
         size |-> Vec3(FAbs(size[1]), FAbs(size[2]), FAbs(size[3]))]

transform_3d_keypoints(keypoints, translation, rotation) ==
    [data |-> [i \in 1..Len(keypoints.data) |->
                 [keypoints.data[i] EXCEPT
                     !.point = VAdd(qv_mult(rotation, @), translation)]],
     frame_id |-> keypoints.frame_id]

\* ------------------------------------------------------------------------
\* process_detections
\* ------------------------------------------------------------------------
\* a Detection message as the detector sends it: no 3D part yet
NoBBox3D == [center |-> Zero3, size |-> Zero3, frame_id |-> ""]
NoKeypoints3D == [data |-> <<>>, frame_id |-> ""]

\* an assignment: value is computed once and Body is evaluated with it
Bind(value, Body(_)) == CHOOSE r \in {Body(x) : x \in {value}} : TRUE

\* the detection as appended to new_detections, with its 3D part set
Appended(detection, box, keypoints3d) ==
    [bbox |-> detection.bbox,
     keypoints |-> detection.keypoints,
     bbox3d |-> [center |-> box.center, size |-> box.size, frame_id |-> target_frame],
     keypoints3d |-> keypoints3d]

\* keypoints3d of a detection with keypoints
LiftKeypoints(depth_image, depth_info, detection, transform) ==
    Bind(convert_keypoints_to_3d(depth_image, depth_info, detection),
         LAMBDA keypoints3d :
            [data |-> transform_3d_keypoints(keypoints3d, transform.translation,
                                             transform.rotation).data,
             frame_id |-> target_frame])

\* variant with a seeded fault: a detection without a 3D box passed through unchanged
Lift_pass_through(depth_image, depth_info, detection, transform) ==
    Bind(convert_bb_to_3d(depth_image, depth_info, detection),
         LAMBDA bbox3d :
            <<Appended(detection,
                       IF bbox3d.ok
                       THEN transform_3d_box(bbox3d, transform.translation,
                                             transform.rotation)
                       ELSE NoBBox3D,
                       IF detection.keypoints # <<>> /\ bbox3d.ok
                       THEN LiftKeypoints(depth_image, depth_info, detection,
                                          transform)
                       ELSE NoKeypoints3D)>>)

\* the body of the loop for one detection: what it appends
Lift(depth_image, depth_info, detection, transform) ==
    Bind(convert_bb_to_3d(depth_image, depth_info, detection),
         LAMBDA bbox3d :
            IF bbox3d.ok
            THEN <<Appended(detection,
                            transform_3d_box(bbox3d, transform.translation,
                                             transform.rotation),
                            IF detection.keypoints # <<>>
                            THEN LiftKeypoints(depth_image, depth_info, detection,
                                               transform)
                            ELSE NoKeypoints3D)>>
            ELSE <<>>)

\* new_detections after the loop over detections
RECURSIVE LiftAll(_, _, _, _)
LiftAll(depth_image, depth_info, detections, transform) ==
    IF detections = <<>> THEN <<>>
    ELSE LiftAll(depth_image, depth_info,
                 SubSeq(detections, 1, Len(detections) - 1), transform)
         \o Lift(depth_image, depth_info, detections[Len(detections)], transform)

process_detections(depth_image, depth_info, detections, lookup) ==
    IF detections = <<>> THEN <<>>
    ELSE Bind(get_transform(lookup),
              LAMBDA transform :
                 IF ~transform.ok THEN <<>>
                 ELSE LiftAll(depth_image, depth_info, detections, transform))

\* ------------------------------------------------------------------------
\* State
\* ------------------------------------------------------------------------
VARIABLES
    lifecycle,      \* lifecycle state of the node
    publisher,      \* self._pub: "none", "inactive", "active" or "destroyed"
    synchronizers,  \* synchronizers with on_detections registered
    frame,          \* the synchronized messages delivered last
    invocations,    \* on_detections calls made for that frame
    returned,       \* what process_detections returned for that frame
    published,      \* messages published for that frame
    pc,             \* position of a single function call
    arg,            \* its arguments
    res             \* its result

vars == <<lifecycle, publisher, synchronizers, frame, invocations, returned,
          published, pc, arg, res>>

node_vars == <<lifecycle, publisher, synchronizers, frame, invocations,
               returned, published>>

\* ------------------------------------------------------------------------
\* Inputs
\* ------------------------------------------------------------------------
Pixels == (0..(ImageHeight - 1)) \X (0..(ImageWidth - 1))

\* raw depth samples: 0 (no reading), 0.2 m, 1 m, 1.2 m, NaN and +inf
Palette == {Num(0), Num(200), Num(1000), Num(1200), NaN, PInf}

Image(f) == [shape |-> <<ImageHeight, ImageWidth>>, data |-> f]

UniformImage(v) == Image([p \in Pixels |-> v])

\* a uniform background with up to two pixels of another value
Backgrounds == {Num(0), Num(1000), NaN}
Holes == {E \in SUBSET Pixels : Cardinality(E) <= 2}
HoleImage(b, D, f) == Image([p \in Pixels |-> IF p \in D THEN f[p] ELSE b])

\* one row of valid depth above rows that count up by 0.2 m per column
RampImage ==
    Image([p \in Pixels |-> IF p = <<0, 0>> THEN Num(0)
                            ELSE Num(1000 + 200 * p[2])])

CameraInfo(fx, fy, px, py) ==
    [k |-> <<fx, Num(0), px, Num(0), fy, py, Num(0), Num(0), Num(1)>>,
     height |-> ImageHeight, width |-> ImageWidth]

Infos ==
    {CameraInfo(Num(2), Num(2), Num(1), Num(1)),
     CameraInfo(Num(1), Num(2), Fin(3, 2), Fin(1, 2)),
     CameraInfo(Num(-2), Num(2), Num(0), Num(0))}

BBox(cx, cy, sx, sy) ==
    [center |-> [x |-> cx, y |-> cy], size |-> [x |-> sx, y |-> sy]]

Detection(bbox, keypoints) == [bbox |-> bbox, keypoints |-> keypoints]

KeyPoint(id, score, x, y) ==
    [id |-> id, score |-> score, point |-> [x |-> x, y |-> y]]

\* box centers in half pixels, box sizes in whole pixels
Centers == {Fin(n, 2) : n \in (-2 * MaxCoord)..(2 * MaxCoord)}
Sizes == {Num(n) : n \in 0..MaxSize}

FewBoxes ==
    {BBox(Num(1), Num(0), Num(2), Num(2)),
     BBox(Num(2), Num(1), Num(4), Num(2))}

ManyBoxes ==
    {BBox(cx, c[1], sx, c[2]) :
        cx \in Centers, sx \in Sizes,
        c \in {<<Num(0), Num(2)>>, <<Num(1), Num(2)>>, <<Num(-2), Num(2)>>}}
    \cup
    {BBox(c[1], cy, c[2], sy) :
        cy \in Centers, sy \in Sizes,
        c \in {<<Num(1), Num(2)>>, <<Num(-2), Num(2)>>}}

Scores == {Num(0), Fin(1, 2)}

KeypointPixels ==
    {<<Num(2), Num(1)>>, <<Num(-1), Num(0)>>, <<Num(1), Num(ImageHeight)>>}

\* a keypoint of the given id, or none
OptKeypoint(id) ==
    {<<>>} \cup {<<KeyPoint(id, s, p[1], p[2])>> : s \in Scores, p \in KeypointPixels}

\* shoulders (5, 6) and hips (11, 12), each present or not
TorsoKeypoints ==
    {a \o b \o c \o d :
        a \in OptKeypoint(5), b \in OptKeypoint(6),
        c \in OptKeypoint(11), d \in OptKeypoint(12)}

BBInput(img, info, det) ==
    [depth_image |-> img, depth_info |-> info, detection |-> det]

DefaultInfo == CameraInfo(Num(2), Num(2), Num(1), Num(1))

\* every depth content under a few boxes
BBInputsDepth(in) ==
    \E b \in Backgrounds, D \in Holes, box \in FewBoxes :
        \E f \in [D -> Palette] :
            in = BBInput(HoleImage(b, D, f), DefaultInfo, Detection(box, <<>>))

\* every box over a few images, with and without a shoulder keypoint
BBInputsBoxes(in) ==
    \E img \in {UniformImage(Num(1000)), RampImage}, info \in Infos,
       box \in ManyBoxes,
       k \in {<<>>, <<KeyPoint(5, Fin(9, 10), Num(1), Num(0))>>} :
        in = BBInput(img, info, Detection(box, k))

\* every combination of shoulder and hip keypoints
BBInputsKeypoints(in) ==
    \E box \in FewBoxes \cup {BBox(Num(-2), Num(0), Num(2), Num(2))},
       k \in TorsoKeypoints :
        in = BBInput(RampImage, DefaultInfo, Detection(box, k))

\* ------------------------------------------------------------------------
\* A single call of convert_bb_to_3d
\* ------------------------------------------------------------------------
NodeIdle ==
    /\ lifecycle = "unconfigured"
    /\ publisher = "none"
    /\ synchronizers = 0
    /\ frame = <<>>
    /\ invocations = 0
    /\ returned = <<>>
    /\ published = <<>>

InitBB ==
    /\ NodeIdle
    /\ pc = "bb_call"
    /\ \/ BBInputsDepth(arg)
       \/ BBInputsBoxes(arg)
       \/ BBInputsKeypoints(arg)
    /\ res = <<>>

ConvertBB ==
    /\ pc = "bb_call"
    /\ res' = convert_bb_to_3d(arg.depth_image, arg.depth_info, arg.detection)
    /\ pc' = "bb_done"
    /\ UNCHANGED <<arg, node_vars>>

NextBB == ConvertBB

SpecBB == InitBB /\ [][NextBB]_vars

\* ------------------------------------------------------------------------
\* A single call of convert_keypoints_to_3d
\* ------------------------------------------------------------------------
\* a valid image with up to two samples among three pixels NaN or +inf
KeypointImages ==
    {HoleImage(Num(1000), D, f) :
        D \in {E \in SUBSET {<<0, 0>>, <<0, 1>>, <<1, 2>>} : Cardinality(E) <= 2},
        f \in [{<<0, 0>>, <<0, 1>>, <<1, 2>>} -> {NaN, PInf}]}

\* keypoints inside the image, on a half pixel and outside of it
SomeKeypoints ==
    {KeyPoint(c[1], c[2], p[1], p[2]) :
        c \in {<<0, Num(0)>>, <<5, Fin(1, 2)>>},
        p \in {<<Num(0), Num(0)>>, <<Fin(3, 2), Num(0)>>,
               <<Num(2), Num(1)>>, <<Num(-1), Num(ImageHeight)>>}}

SeqsUpTo(S, n) == UNION {[1..k -> S] : k \in 0..n}

InitKP ==
    /\ NodeIdle
    /\ pc = "kp_call"
    /\ \E img \in KeypointImages,
          info \in {DefaultInfo, CameraInfo(Num(1), Num(2), Fin(3, 2), Fin(1, 2))},
          k \in SeqsUpTo(SomeKeypoints, MaxKeypoints) :
           arg = BBInput(img, info, Detection(BBox(Num(1), Num(0), Num(2), Num(2)), k))
    /\ res = <<>>

ConvertKeypoints ==
    /\ pc = "kp_call"
    /\ res' = convert_keypoints_to_3d(arg.depth_image, arg.depth_info, arg.detection)
    /\ pc' = "kp_done"
    /\ UNCHANGED <<arg, node_vars>>

NextKP == ConvertKeypoints

SpecKP == InitKP /\ [][NextKP]_vars

\* ------------------------------------------------------------------------
\* transform_3d_box and its inverse on the center
\* ------------------------------------------------------------------------
Quaternion(w, x, y, z) == [w |-> w, x |-> x, y |-> y, z |-> z]

\* unit quaternions: identity, half turns, thirds of a turn about a
\* diagonal, and rotations by 2*atan(4/3) about an axis
UnitQuaternions ==
    {Quaternion(Num(1), Num(0), Num(0), Num(0)),
     Quaternion(Num(0), Num(1), Num(0), Num(0)),
     Quaternion(Num(0), Num(0), Num(1), Num(0)),
     Quaternion(Num(0), Num(0), Num(0), Num(1)),
     Quaternion(Fin(1, 2), Fin(1, 2), Fin(1, 2), Fin(1, 2)),
     Quaternion(Fin(1, 2), Fin(-1, 2), Fin(1, 2), Fin(-1, 2)),
     Quaternion(Fin(3, 5), Fin(4, 5), Num(0), Num(0)),
     Quaternion(Fin(3, 5), Num(0), Fin(-4, 5), Num(0)),
     Quaternion(Num(0), Fin(3, 5), Num(0), Fin(4, 5))}

Translations ==
    {Quaternion(Num(0), Num(0), Num(0), Num(0)),
     Quaternion(Num(0), Num(1), Fin(-1, 2), Num(2))}

Lookup(t, q) == [raises |-> FALSE, translation |-> t, rotation |-> q]
LookupFails ==
    [raises |-> TRUE, translation |-> Quaternion(Num(0), Num(0), Num(0), Num(0)),
     rotation |-> Quaternion(Num(0), Num(0), Num(0), Num(0))]

Coords == {Fin(n, 2) : n \in (-MaxCoord)..MaxCoord}

InitTF ==
    /\ NodeIdle
    /\ pc = "tf_call"
    /\ \E x \in Coords, y \in Coords, z \in Coords,
          size \in {Vec3(Num(1), Num(2), Fin(1, 2))},
          t \in Translations, q \in UnitQuaternions :
           arg = [bbox |-> [center |-> Vec3(x, y, z), size |-> size],
                  transform |-> get_transform(Lookup(t, q))]
    /\ res = <<>>

TransformBox ==
    /\ pc = "tf_call"
    /\ res' = [box |-> transform_3d_box(arg.bbox, arg.transform.translation,
                                        arg.transform.rotation),
               back |-> Zero3]
    /\ pc' = "tf_done"
    /\ UNCHANGED <<arg, node_vars>>

Conjugate(q) == <<q[1], FNeg(q[2]), FNeg(q[3]), FNeg(q[4])>>

\* subtract the translation, rotate by the inverse quaternion
InvertCenter ==
    /\ pc = "tf_done"
    /\ res' = [res EXCEPT !.back =
                 qv_mult(Conjugate(arg.transform.rotation),
                         VSub(res.box.center, arg.transform.translation))]
    /\ pc' = "tf_back"
    /\ UNCHANGED <<arg, node_vars>>

NextTF == TransformBox \/ InvertCenter

SpecTF == InitTF /\ [][NextTF]_vars

\* ------------------------------------------------------------------------
\* A single call of process_detections
\* ------------------------------------------------------------------------
SomeDetections ==
    {Detection(BBox(Num(1), Num(0), Num(2), Num(2)), <<>>),
     Detection(BBox(Num(2), Num(1), Num(4), Num(2)),
               <<KeyPoint(0, Fin(1, 2), Num(0), Num(0)),
                 KeyPoint(5, Fin(1, 2), Num(2), Num(1))>>),
     Detection(BBox(Num(ImageWidth + 2), Num(0), Num(2), Num(2)), <<>>),
     Detection(BBox(Num(1), Num(0), Num(2), Num(2)),
               <<KeyPoint(5, Num(0), Num(2), Num(1))>>),
     Detection(BBox(Fin(3, 2), Num(0), Num(3), Num(2)),
               <<KeyPoint(11, Fin(1, 2), Num(1), Num(1)),
                 KeyPoint(6, Fin(1, 2), Num(1), Num(0))>>)}

SomeImages ==
    {UniformImage(Num(1000)), RampImage,
     HoleImage(Num(1200), {<<0, 0>>, <<1, 1>>}, [p \in Pixels |-> IF p = <<0, 0>> THEN NaN ELSE Num(1000)])}

Lookups ==
    {LookupFails} \cup
    {Lookup(t, q) : t \in Translations,
                    q \in {Quaternion(Num(1), Num(0), Num(0), Num(0)),
                           Quaternion(Num(0), Num(1), Num(0), Num(0)),
                           Quaternion(Fin(3, 5), Num(0), Fin(-4, 5), Num(0))}}

FrameMsgs(img, info, dets, lookup) ==
    [depth_image |-> img, depth_info |-> info, detections |-> dets, lookup |-> lookup]

InitPD ==
    /\ NodeIdle
    /\ pc = "pd_call"
    /\ \E img \in SomeImages, info \in Infos, lookup \in Lookups,
          dets \in SeqsUpTo(SomeDetections, MaxDetections) :
           arg = FrameMsgs(img, info, dets, lookup)
    /\ res = <<>>

ProcessDetections ==
    /\ pc = "pd_call"
    /\ res' = process_detections(arg.depth_image, arg.depth_info, arg.detections,
                                 arg.lookup)
    /\ pc' = "pd_done"
    /\ UNCHANGED <<arg, node_vars>>

NextPD == ProcessDetections

SpecPD == InitPD /\ [][NextPD]_vars

\* ------------------------------------------------------------------------
\* The node: lifecycle transitions and synchronized frames
\* ------------------------------------------------------------------------
Init ==
    /\ NodeIdle
    /\ pc = "node"
    /\ arg = <<>>
    /\ res = <<>>

\* Only the first configuration is modelled: configuring again after a
\* cleanup declares the parameters a second time, which raises.
on_configure ==
    /\ lifecycle = "unconfigured"
    /\ publisher = "none"
    /\ publisher' = "inactive"
    /\ lifecycle' = "inactive"
    /\ UNCHANGED <<synchronizers, frame, invocations, returned, published, pc, arg, res>>

\* new subscribers and a new synchronizer with on_detections registered;
\* the ones of an earlier activation stay subscribed
on_activate ==
    /\ lifecycle = "inactive"
    /\ synchronizers < MaxActivations
    /\ synchronizers' = synchronizers + 1
    /\ publisher' = "active"
    /\ lifecycle' = "active"
    /\ UNCHANGED <<frame, invocations, returned, published, pc, arg, res>>

on_deactivate ==
    /\ lifecycle = "active"
    /\ publisher' = "inactive"
    /\ lifecycle' = "inactive"
    /\ UNCHANGED <<synchronizers, frame, invocations, returned, published, pc, arg, res>>

on_cleanup ==
    /\ lifecycle = "inactive"
    /\ publisher' = "destroyed"
    /\ lifecycle' = "unconfigured"
    /\ UNCHANGED <<synchronizers, frame, invocations, returned, published, pc, arg, res>>

on_shutdown ==
    /\ lifecycle \in {"unconfigured", "inactive", "active"}
    /\ publisher' = IF publisher = "none" THEN "none" ELSE "destroyed"
    /\ lifecycle' = "finalized"
    /\ UNCHANGED <<synchronizers, frame, invocations, returned, published, pc, arg, res>>

\* the message on_detections hands to self._pub.publish
on_detections(msgs) ==
    [header |-> "detections.header",
     detections |-> process_detections(msgs.depth_image, msgs.depth_info,
                                       msgs.detections, msgs.lookup)]

Frames ==
    {FrameMsgs(img, DefaultInfo, dets, lookup) :
        img \in {UniformImage(Num(1000)), RampImage},
        dets \in {<<>>,
                  <<Detection(BBox(Num(1), Num(0), Num(2), Num(2)), <<>>)>>,
                  <<Detection(BBox(Num(ImageWidth + 2), Num(0), Num(2), Num(2)), <<>>),
                    Detection(BBox(Num(2), Num(1), Num(4), Num(2)),
                              <<KeyPoint(5, Fin(1, 2), Num(2), Num(1))>>)>>},
        lookup \in {LookupFails,
                    Lookup(Quaternion(Num(0), Num(1), Fin(-1, 2), Num(2)),
                           Quaternion(Num(0), Num(1), Num(0), Num(0)))}}

\* One set of synchronized messages arrives: every registered
\* synchronizer calls on_detections once, and each call publishes; the
\* lifecycle publisher sends only while it is active.
SynchronizedFrame ==
    /\ synchronizers > 0
    /\ \E msgs \in Frames :
        /\ frame' = <<msgs>>
        /\ invocations' = synchronizers
        /\ \E msg \in {on_detections(msgs)} :
            /\ returned' = [i \in 1..synchronizers |-> msg.detections]
            /\ published' = IF publisher = "active"
                            THEN [i \in 1..synchronizers |-> msg]
                            ELSE <<>>
    /\ UNCHANGED <<lifecycle, publisher, synchronizers, pc, arg, res>>

Next ==
    \/ on_configure
    \/ on_activate
    \/ on_deactivate
    \/ on_cleanup
    \/ on_shutdown
    \/ SynchronizedFrame

Spec == Init /\ [][Next]_vars

\* ------------------------------------------------------------------------
\* Properties of process_detections (checked under SpecPD)
\* ------------------------------------------------------------------------
Returned == pc = "pd_done"

\* the box convert_bb_to_3d yields for the i-th input detection
InputBox(i) ==
    convert_bb_to_3d(arg.depth_image, arg.depth_info, arg.detections[i])

Transform == get_transform(arg.lookup)

\* C1: when the transform lookup fails, process_detections returns the
\* empty list, whatever the detections and the depth image are.
C1_LookupFailureReturnsEmpty ==
    (Returned /\ arg.lookup.raises) => res = <<>>

\* the lookup failed for a frame with a detection that has a 3D box
C1_Witness ==
    /\ Returned
    /\ arg.lookup.raises
    /\ \E i \in 1..Len(arg.detections) : InputBox(i).ok
    /\ res = <<>>

\* the i-th smallest element of a set of indices
Nth(S, i) == CHOOSE k \in S : Cardinality({m \in S : m <= k}) = i

\* C2: with a transform available, the returned list is the subsequence
\* of the input detections for which convert_bb_to_3d yields a box: each
\* of them once, in the input order, carrying that box transformed, and
\* no other detection.
C2_ReturnsResolvedSubsequence ==
    (Returned /\ ~arg.lookup.raises) =>
        LET kept == {i \in 1..Len(arg.detections) : InputBox(i).ok}
        IN  /\ Len(res) = Cardinality(kept)
            /\ \A j \in 1..Len(res) :
                 LET i == Nth(kept, j)
                     box == transform_3d_box(InputBox(i), Transform.translation,
                                             Transform.rotation)
                 IN  /\ res[j].bbox = arg.detections[i].bbox
                     /\ res[j].keypoints = arg.detections[i].keypoints
                     /\ res[j].bbox3d.center = box.center
                     /\ res[j].bbox3d.size = box.size

\* an unresolved detection is dropped in front of a resolved one
C2_Witness ==
    /\ Returned
    /\ ~arg.lookup.raises
    /\ Len(arg.detections) >= 2
    /\ ~InputBox(1).ok
    /\ InputBox(2).ok
    /\ Len(res) < Len(arg.detections)
    /\ res[1].bbox = arg.detections[2].bbox

C9_CenterRoundTrip ==
    pc = "tf_back" => res.back = arg.bbox.center

\* the round trip of a center that a third of a turn about the diagonal
\* and a translation moved
C9_Witness ==
    /\ pc = "tf_back"
    /\ arg.transform.rotation = <<Fin(1, 2), Fin(1, 2), Fin(1, 2), Fin(1, 2)>>
    /\ arg.transform.translation # Zero3
    /\ res.box.center # arg.bbox.center
    /\ res.back = arg.bbox.center

\* ------------------------------------------------------------------------
\* Properties of convert_bb_to_3d (checked under SpecBB)
\* ------------------------------------------------------------------------
Converted == pc = "bb_done"

\* the keypoints of the detection with an id among ids
Present(ids) ==
    {arg.detection.keypoints[i] :
        i \in {k \in 1..Len(arg.detection.keypoints) :
                 arg.detection.keypoints[k].id \in ids}}

\* the candidates of a pair: its present keypoints of highest confidence
Candidates(ids) ==
    {kp \in Present(ids) : \A other \in Present(ids) : FGe(kp.score, other.score)}

IntPoint(x, y) == [x |-> Trunc(x), y |-> Trunc(y)]

\* the anchors the rule allows for the detection
AllowedAnchors ==
    LET ups == Candidates({5, 6})
        downs == Candidates({11, 12})
    IN  IF ups # {} /\ downs # {}
        THEN {IntPoint(MidPoint(u, d).x, MidPoint(u, d).y) : u \in ups, d \in downs}
        ELSE IF ups # {} THEN {IntPoint(u.point.x, u.point.y) : u \in ups}
        ELSE IF downs # {} THEN {IntPoint(d.point.x, d.point.y) : d \in downs}
        ELSE {IntPoint(arg.detection.bbox.center.x, arg.detection.bbox.center.y)}

\* C3: the pixel anchor is chosen from the keypoints present in the
\* detection only: per pair (5, 6) and (11, 12) the present keypoint of
\* higher confidence; the midpoint of the two candidates, the single
\* candidate, or the center of the box when no such keypoint is present.
C3_AnchorFromPresentKeypoints ==
    (Converted /\ res.stage # "no_roi") => res.anchor \in AllowedAnchors

\* the rectangle of the box in whole pixels, clipped to the image
ClippedRectangle ==
    LET b == BoxInt(arg.detection)
        u_min == Max(b.center_x - (b.size_x \div 2), 0)
        u_max == Min(b.center_x + (b.size_x \div 2), arg.depth_image.shape[2] - 1)
        v_min == Max(b.center_y - (b.size_y \div 2), 0)
        v_max == Min(b.center_y + (b.size_y \div 2), arg.depth_image.shape[1] - 1)
    IN  {p \in (v_min..v_max) \X (u_min..u_max) :
            /\ p[1] \in 0..(arg.depth_image.shape[1] - 1)
            /\ p[2] \in 0..(arg.depth_image.shape[2] - 1)}

\* C4: the depth region sampled for a box holds only pixels inside the
\* image and inside the rectangle u_min..u_max, v_min..v_max of the box
\* clipped to the image, wherever the box lies.
C4_RoiInsideClippedRectangle ==
    Converted => res.roi \subseteq ClippedRectangle

\* the samples of the sampled region, in meters
RoiSample(p) == FDiv(arg.depth_image.data[p], Num(depth_image_units_divisor))

StrictlyPositive == {p \in res.roi : FGt(RoiSample(p), Num(0))}

PositiveSamples == {p \in StrictlyPositive : IsFinite(RoiSample(p))}

\* the samples within the threshold of the center depth
ConsensusSamples ==
    {RoiSample(p) : p \in
        {q \in res.roi :
            FLe(FAbs(FSub(RoiSample(q), res.center[3])),
                maximum_detection_threshold)}}

\* size.z is the spread of the consensus samples
SizeIsSpread ==
    \E lo \in ConsensusSamples, hi \in ConsensusSamples :
        /\ \A z \in ConsensusSamples : FLe(lo, z) /\ FLe(z, hi)
        /\ res.size[3] = FSub(hi, lo)

\* one positive depth d all over the region of a detection without
\* keypoints gives center.z = d / units_divisor and size.z = 0
UniformRegion ==
    \A d \in Palette :
        (/\ arg.detection.keypoints = <<>>
         /\ FGt(d, Num(0)) /\ IsFinite(d)
         /\ \A p \in res.roi : arg.depth_image.data[p] = d)
        => (/\ res.center[3] = FDiv(d, Num(depth_image_units_divisor))
            /\ res.size[3] = Num(0))

\* center.z is the mean of the samples S of the region
CenterIsMeanOf(S) ==
    /\ S # {}
    /\ FMul(res.center[3], Num(Cardinality(S)))
          = FSum(S, [p \in res.roi |-> RoiSample(p)])

\* C5 as stated: the center.z of a returned box is the mean of all
\* strictly positive depth samples of the region, in meters, and its
\* size.z is the maximum minus the minimum of the samples of the region
\* within maximum_detection_threshold of that mean; so a region of one
\* positive depth d gives center.z = d / units_divisor and size.z = 0.
C5_CenterIsMeanOfPositive ==
    (Converted /\ res.ok) =>
        /\ CenterIsMeanOf(StrictlyPositive)
        /\ SizeIsSpread
        /\ UniformRegion

\* C5 amended: the center.z of a returned box is the mean of the finite
\* strictly positive depth samples of the region (an infinite sample does
\* not count), in meters; size.z and the uniform case are as stated.
C5_CenterIsMeanSizeIsSpread ==
    (Converted /\ res.ok) =>
        /\ CenterIsMeanOf(PositiveSamples)
        /\ SizeIsSpread
        /\ UniformRegion

\* a box whose center depth is the mean of differing samples and not the
\* depth read at the anchor
C5_Witness ==
    /\ Converted
    /\ res.ok
    /\ Cardinality({RoiSample(p) : p \in PositiveSamples}) >= 2
    /\ res.center[3] # FDiv(arg.depth_image.data[<<res.anchor.y, res.anchor.x>>],
                            Num(depth_image_units_divisor))
    /\ FGt(res.size[3], Num(0))

OutsideImage(center) ==
    \/ center.x < 0
    \/ center.x >= arg.depth_image.shape[2]
    \/ center.y < 0
    \/ center.y >= arg.depth_image.shape[1]

\* C6: when the resolved pixel anchor lies outside the image, no box is
\* returned and the depth image is not read at the anchor.
C6_AnchorOutsideGivesNoBox ==
    (Converted /\ OutsideImage(PixelAnchor(arg.detection))) =>
        (~res.ok /\ res.reads = {})

\* the anchor is at the width of the image over a region with depth
C6_Witness ==
    /\ Converted
    /\ res.stage = "outside"
    /\ res.anchor.x = arg.depth_image.shape[2]
    /\ ~res.ok

\* ------------------------------------------------------------------------
\* Properties of convert_keypoints_to_3d (checked under SpecKP)
\* ------------------------------------------------------------------------
\* the raw depth sampled for a keypoint
SampledDepth(kp) ==
    arg.depth_image.data[<<KeypointPixel(arg.depth_info, kp).u,
                           KeypointPixel(arg.depth_info, kp).v>>]

IdsAndScores(data) == [i \in 1..Len(data) |-> <<data[i].id, data[i].score>>]

DepthDefined(kp) == ~IsNaN(SampledDepth(kp))

\* C7 as stated: for every keypoint sequence the result holds the
\* keypoints whose sampled depth is not NaN, in the input order, with
\* their ids and scores.
C7_KeepsDefinedDepth ==
    pc = "kp_done" =>
        /\ ~res.raised
        /\ IdsAndScores(res.data)
             = IdsAndScores(SelectSeq(arg.detection.keypoints, DepthDefined))

\* the projected point has no NaN component: the depth is not NaN, and an
\* infinite depth is not multiplied by a zero offset from the principal
\* point
PointDefined(kp) ==
    /\ ~IsNaN(SampledDepth(kp))
    /\ IsInf(SampledDepth(kp)) =>
          /\ Num(KeypointPixel(arg.depth_info, kp).v) # K(arg.depth_info, 2)
          /\ Num(KeypointPixel(arg.depth_info, kp).u) # K(arg.depth_info, 5)

\* C7 amended: for every non-empty keypoint sequence the result holds the
\* keypoints whose projected point has no NaN component, in the input
\* order, with their ids and scores.
C7_KeepsDefinedPoints ==
    (pc = "kp_done" /\ arg.detection.keypoints # <<>>) =>
        /\ ~res.raised
        /\ IdsAndScores(res.data)
             = IdsAndScores(SelectSeq(arg.detection.keypoints, PointDefined))

\* a keypoint of NaN depth is left out and its sibling is kept
C7_Witness ==
    /\ pc = "kp_done"
    /\ Len(arg.detection.keypoints) = 2
    /\ IsNaN(SampledDepth(arg.detection.keypoints[1]))
    /\ IsFinite(SampledDepth(arg.detection.keypoints[2]))
    /\ Len(res.data) = 1
    /\ res.data[1].id = arg.detection.keypoints[2].id

\* ------------------------------------------------------------------------
\* Properties of the node (checked under Spec)
\* ------------------------------------------------------------------------
\* C10: after any sequence of lifecycle transitions a synchronized frame
\* causes one call of on_detections and is not published more than once.
C10_OneInvocationPerFrame ==
    frame # <<>> => (invocations = 1 /\ Len(published) <= 1)

=============================================================================
